---------------------------- MODULE Spec2Model ----------------------------
(***************************************************************************)
(* Model of meme_ocr_tts: the edit-round-trip text format (the writer of   *)
(* detected_texts.txt and the three parsers that read it back) and the     *)
(* generate / quality_control loop of meme_ocr.py.                         *)
(*                                                                         *)
(* A Python str is a sequence of one-character strings.  An insertion-     *)
(* ordered dict is a sequence of records [id, text] with distinct ids.     *)
(* The audio directory is the set of the file names it holds.              *)
(***************************************************************************)
EXTENDS Naturals, Integers, Sequences, FiniteSets, Bags, TLC

VARIABLES
    variant,          \* which of the three programs runs
    pc,               \* position in process_images / quality_control
    detected_texts,   \* Step 1 result: ordered dict id -> OCR text
    txt_file,         \* contents of detected_texts.txt
    editor,           \* outcome of launching the editor
    corrected_texts,  \* Step 4 result: ordered dict id -> corrected text
    files,            \* names of the files in audio_dir
    idx,              \* entries the Step 5 loop has finished
    max_attempts,     \* quality_control's parameter
    attempt,          \* quality_control's loop variable
    missing,          \* quality_control's set of the current round
    pending,          \* ids of `missing` the regeneration loop has yet to visit
    reasons,          \* quality_control's dict id -> last error message
    report,           \* the printed final report: id -> reason
    passLog,          \* history: [id, text, err] of each Step 5 call, in order
    regens,           \* history: id -> regeneration calls made for it
    rounds,           \* history: regeneration rounds started
    lastErr,          \* history: id -> message of its latest failed regeneration
    completeAt,       \* history: first round after which no artifact was missing
    regenLog          \* history: bag of [round, id, text, existed] of the regeneration calls

vars == <<variant, pc, detected_texts, txt_file, editor, corrected_texts, files,
          idx, max_attempts, attempt, missing, pending, reasons, report,
          passLog, regens, rounds, lastErr, completeAt, regenLog>>

-----------------------------------------------------------------------------
(* Characters and Python's str methods, restricted to the model's alphabet. *)

NL == "\n"
SP == " "
COLON == ":"
DOT == "."
SLASH == "/"

\* str.isspace for one character
IsSpace(c) == c \in {SP, NL}

Max(S) == CHOOSE x \in S : \A y \in S : y <= x

\* s[i:j] with 1-based inclusive bounds; empty when i > j
Slice(s, i, j) == IF i > j THEN <<>> ELSE SubSeq(s, i, j)

\* index of the first character at or after i that is no whitespace
RECURSIVE SkipSpace(_, _)
SkipSpace(s, i) == IF i <= Len(s) /\ IsSpace(s[i]) THEN SkipSpace(s, i + 1) ELSE i

\* index of the last character at or before j that is no whitespace
RECURSIVE SkipSpaceBack(_, _)
SkipSpaceBack(s, j) == IF j >= 1 /\ IsSpace(s[j]) THEN SkipSpaceBack(s, j - 1) ELSE j

\* str.strip()
Strip(s) == Slice(s, SkipSpace(s, 1), SkipSpaceBack(s, Len(s)))

\* str.rstrip()
RStrip(s) == Slice(s, 1, SkipSpaceBack(s, Len(s)))

\* str.endswith(":")
EndsWithColon(s) == Len(s) > 0 /\ s[Len(s)] = COLON

\* s.endswith(suffix)
EndsWith(s, suffix) ==
    Len(s) >= Len(suffix) /\ SubSeq(s, Len(s) - Len(suffix) + 1, Len(s)) = suffix

\* index of the first newline at or after i, Len(s) + 1 when there is none
RECURSIVE NextNL(_, _)
NextNL(s, i) == IF i <= Len(s) /\ s[i] # NL THEN NextNL(s, i + 1) ELSE i

RECURSIVE SplitLinesFrom(_, _)
SplitLinesFrom(s, i) ==
    IF i > Len(s) THEN <<>>
    ELSE LET n == NextNL(s, i)
         IN  <<Slice(s, i, n - 1)>> \o SplitLinesFrom(s, n + 1)

\* str.splitlines(): line ends dropped, no empty last piece
SplitLines(s) == SplitLinesFrom(s, 1)

RECURSIVE ReadLinesFrom(_, _)
ReadLinesFrom(s, i) ==
    IF i > Len(s) THEN <<>>
    ELSE LET n == NextNL(s, i)
         IN  IF n > Len(s) THEN <<SubSeq(s, i, Len(s))>>
             ELSE <<SubSeq(s, i, n)>> \o ReadLinesFrom(s, n + 1)

\* file.readlines(): every line keeps its line end
ReadLines(s) == ReadLinesFrom(s, 1)

RECURSIVE JoinFrom(_, _, _)
JoinFrom(parts, sep, i) ==
    IF i > Len(parts) THEN <<>>
    ELSE IF i = Len(parts) THEN parts[i]
    ELSE parts[i] \o sep \o JoinFrom(parts, sep, i + 1)

\* sep.join(parts)
Join(parts, sep) == JoinFrom(parts, sep, 1)

\* the match as it would be for the pattern \n\n
RECURSIVE MatchEndExact(_, _, _)
MatchEndExact(s, q, last) == IF q <= Len(s) /\ s[q] = NL THEN q ELSE last

\* the end of the match of \n\s*\n that starts at the newline p, 0 when
\* there is none: the last newline of the whitespace that follows p (\s* is
\* greedy); q runs over that whitespace, last is the last newline seen
RECURSIVE MatchEnd(_, _, _)
MatchEnd(s, q, last) ==
    IF q <= Len(s) /\ IsSpace(s[q])
    THEN MatchEnd(s, q + 1, IF s[q] = NL THEN q ELSE last)
    ELSE last

\* re.split(r"\n\s*\n", s) from index i on, the piece in progress begun at
\* from and the search for the next match at p
RECURSIVE ReSplitFrom(_, _, _)
ReSplitFrom(s, from, p) ==
    LET n == NextNL(s, p)
    IN  IF n > Len(s) THEN <<Slice(s, from, Len(s))>>
        ELSE LET q == MatchEnd(s, n + 1, 0)
             IN  IF q = 0 THEN ReSplitFrom(s, from, n + 1)
                 ELSE <<Slice(s, from, n - 1)>> \o ReSplitFrom(s, q + 1, q + 1)

\* re.split(r"\n\s*\n", s)
ReSplit(s) == ReSplitFrom(s, 1, 1)

-----------------------------------------------------------------------------
(* Insertion-ordered dict: a sequence of [id, text] with distinct ids. *)

Keys(d) == {d[i].id : i \in 1..Len(d)}

\* d[k], for k in d
Get(d, k) == d[CHOOSE i \in 1..Len(d) : d[i].id = k].text

\* d[k] = v as it would be if the first value of a key were kept
PutFirstWins(d, k, v) ==
    IF k \in Keys(d) THEN d ELSE Append(d, [id |-> k, text |-> v])

\* d[k] = v: an existing key keeps its position, a new key goes last
Put(d, k, v) ==
    IF k \in Keys(d)
    THEN [i \in 1..Len(d) |-> IF d[i].id = k THEN [id |-> k, text |-> v] ELSE d[i]]
    ELSE Append(d, [id |-> k, text |-> v])

-----------------------------------------------------------------------------
(* The text block codec. *)

\* the writer as it would be without the colon after the id
RECURSIVE EncodeFromNoColon(_, _)
EncodeFromNoColon(d, i) ==
    IF i > Len(d) THEN <<>>
    ELSE d[i].id \o <<NL>> \o d[i].text \o <<NL, NL>> \o EncodeFromNoColon(d, i + 1)

RECURSIVE EncodeFrom(_, _)
EncodeFrom(d, i) ==
    IF i > Len(d) THEN <<>>
    ELSE d[i].id \o <<COLON, NL>> \o d[i].text \o <<NL, NL>> \o EncodeFrom(d, i + 1)

RECURSIVE EncodeTightFrom(_, _)
EncodeTightFrom(d, i) ==
    IF i > Len(d) THEN <<>>
    ELSE d[i].id \o <<COLON, NL>> \o d[i].text \o <<NL>> \o EncodeTightFrom(d, i + 1)

\* the writer as it would be without the blank line after each text
EncodeTight(d) == EncodeTightFrom(d, 1)

\* Step 2 of process_images: f.write(f"{image_name}:\n{text}\n\n") per entry
Encode(d) == EncodeFrom(d, 1)

\* [line.strip() for line in lines[i:] if line.strip()], i 1-based
RECURSIVE StrippedNonBlank(_, _)
StrippedNonBlank(lines, i) ==
    IF i > Len(lines) THEN <<>>
    ELSE IF Strip(lines[i]) = <<>> THEN StrippedNonBlank(lines, i + 1)
    ELSE <<Strip(lines[i])>> \o StrippedNonBlank(lines, i + 1)

\* the text lines of a block: those of lines[1:]
TextLines(lines) == StrippedNonBlank(lines, 2)

\* the loop body as it would be without the "continue" of a malformed header
DecodeBlockKeepsBad(d, rawBlock) ==
    LET block == Strip(rawBlock)
        lines == SplitLines(block)
        header == Strip(lines[1])
        image_name == Strip(Slice(header, 1, Len(header) - 1))
        text == Join(TextLines(lines), <<NL>>)
    IN  IF block = <<>> THEN d
        ELSE Put(d, image_name, text)

\* the loop body as it would be if a block without text were skipped
DecodeBlockDropsEmpty(d, rawBlock) ==
    LET block == Strip(rawBlock)
        lines == SplitLines(block)
        header == Strip(lines[1])
        image_name == Strip(Slice(header, 1, Len(header) - 1))
        text == Join(TextLines(lines), <<NL>>)
    IN  IF block = <<>> THEN d
        ELSE IF ~EndsWithColon(header) THEN d
        ELSE IF text = <<>> THEN d
        ELSE Put(d, image_name, text)

\* one pass of the body of "for block in blocks" of meme_ocr.py
DecodeBlock(d, rawBlock) ==
    LET block == Strip(rawBlock)
        lines == SplitLines(block)
        header == Strip(lines[1])
        image_name == Strip(Slice(header, 1, Len(header) - 1))
        text == Join(TextLines(lines), <<NL>>)
    IN  IF block = <<>> THEN d
        ELSE IF ~EndsWithColon(header) THEN d
        ELSE Put(d, image_name, text)

RECURSIVE DecodeBlocksFrom(_, _, _)
DecodeBlocksFrom(blocks, i, d) ==
    IF i > Len(blocks) THEN d
    ELSE DecodeBlocksFrom(blocks, i + 1, DecodeBlock(d, blocks[i]))

\* Step 4 of meme_ocr.py
DecodeBalcon(content) == DecodeBlocksFrom(ReSplit(content), 1, <<>>)

RECURSIVE SkipBlank(_, _)
SkipBlank(lines, i) ==
    IF i <= Len(lines) /\ Strip(lines[i]) = <<>> THEN SkipBlank(lines, i + 1) ELSE i

RECURSIVE DecodeLinesFrom(_, _, _)
DecodeLinesFrom(lines, i, d) ==
    IF i > Len(lines) THEN d
    ELSE LET line == RStrip(lines[i])
         IN  IF line = <<>> THEN DecodeLinesFrom(lines, i + 1, d)
             ELSE IF EndsWithColon(line)
             THEN LET image_name == Strip(Slice(line, 1, Len(line) - 1))
                      text_line == IF i + 1 <= Len(lines) THEN RStrip(lines[i + 1])
                                   ELSE <<>>
                      next == IF i + 1 <= Len(lines) THEN i + 2 ELSE i + 1
                  IN  DecodeLinesFrom(lines, SkipBlank(lines, next),
                                      Put(d, image_name, text_line))
             ELSE DecodeLinesFrom(lines, i + 1, d)

\* Step 4 of meme_ocr_MacOS.py
DecodeMacOS(content) == DecodeLinesFrom(ReadLines(content), 1, <<>>)

\* Step 4 of the Google Cloud TTS program
DecodeCloud(content) == DecodeLinesFrom(ReadLines(content), 1, <<>>)

Variants == {"meme_ocr", "meme_ocr_MacOS", "cloud_tts"}

Decode(v, content) ==
    CASE v = "meme_ocr" -> DecodeBalcon(content)
      [] v = "meme_ocr_MacOS" -> DecodeMacOS(content)
      [] v = "cloud_tts" -> DecodeCloud(content)

-----------------------------------------------------------------------------
(* The audio directory and the TTS call. *)

WAV == <<DOT, "w", "a", "v">>

\* audio_dir / f"{image_name}.wav", as a name relative to audio_dir
AudioFile(id) == id \o WAV

\* audio_file.exists()
Exists(fs, id) == AudioFile(id) \in fs

\* PurePath.stem: the name up to its last dot, unless that dot is the first
\* or the last character of the name
Stem(name) ==
    LET dots == {i \in 1..Len(name) : name[i] = DOT}
    IN  IF dots # {} /\ 1 < Max(dots) /\ Max(dots) < Len(name)
        THEN SubSeq(name, 1, Max(dots) - 1)
        ELSE name

\* {f.stem for f in audio_dir.glob("*.wav")}: the direct children of audio_dir
\* whose name ends with .wav (pathlib's * also matches a leading dot)
GlobStems(fs) ==
    {Stem(f) : f \in {g \in fs : EndsWith(g, WAV) /\ \A i \in 1..Len(g) : g[i] # SLASH}}

NoErr == "None"
Messages == {"E1", "E2"}
Placeholder == "No error message available."

\* what one call of generate_audio_balcon can do: the value it returns and
\* whether the output file exists afterwards
Outcomes == [err : {NoErr} \cup Messages, wrote : BOOLEAN]

\* the directory after generate_audio_balcon(text, audio_dir / f"{id}.wav")
AfterGenerate(fs, id, o) == IF o.wrote THEN fs \cup {AudioFile(id)} ELSE fs

\* reasons[image_name] = err
Record(rs, id, err) ==
    [k \in DOMAIN rs \cup {id} |-> IF k = id THEN err ELSE rs[k]]

\* "if err: reasons[image_name] = err"
NoteError(rs, id, err) == IF err # NoErr THEN Record(rs, id, err) ELSE rs

DefaultMaxAttempts == 3

-----------------------------------------------------------------------------
(* Bounds and the sets the inputs are drawn from. *)

MaxLines == 6          \* lines of a document handed to the parser of meme_ocr.py
MaxVariantLines == 4   \* lines of a document handed to each of the three parsers
MaxTextLines == 2      \* lines of a text handed to the writer
MaxEditLines == 3      \* lines of the document the operator leaves in a full run
MaxAttempts == 3       \* largest max_attempts quality_control is called with

\* all sequences over S of length at most n
SeqsUpTo(S, n) == UNION {[1..k -> S] : k \in 0..n}

\* the lines an edited document is made of: blank, whitespace only, two
\* headers (one padded with whitespace) and a padded text line; a header
\* line inside a block is a text line too
LineSet ==
    { <<>>, <<SP>>, <<"a", COLON>>, <<SP, "b", COLON, SP>>, <<SP, "y", SP>> }

DocsOf(lineSet, n) == {Join(ls, <<NL>>) : ls \in SeqsUpTo(lineSet, n)}

\* lines a text handed to the writer is made of: blank, one ending with a
\* colon, one with leading whitespace
TextLineSet == { <<>>, <<"x", COLON>>, <<SP, "y">> }

Texts == DocsOf(TextLineSet, MaxTextLines)

\* ids handed to the writer
CodecIds == { <<>>, <<"a">> }

\* ordered dicts over the given ids and texts
Dicts(ids, texts) ==
    {d \in SeqsUpTo([id : ids, text : texts], Cardinality(ids)) :
        \A i, j \in 1..Len(d) : i # j => d[i].id # d[j].id}

\* what Step 1 can produce: the stems of the image files that gave a text,
\* in the order of os.walk, each with a stripped, non-empty, one-line text
OcrEntries ==
    << [id |-> <<"a">>, text |-> <<"x">>], [id |-> <<"b">>, text |-> <<"x">>] >>

OcrBatches == {SubSeq(OcrEntries, 1, n) : n \in 0..Len(OcrEntries)}

\* lines of the document the operator leaves in a full run
EditLineSet == { <<>>, <<"a", COLON>>, <<COLON>>, <<"x">> }

QcIds == { <<>>, <<"a">>, <<"b">> }
QcTexts == { <<"x">> }

-----------------------------------------------------------------------------
(* process_images of meme_ocr.py, from Step 2 on, and quality_control. *)

NoHistory ==
    /\ passLog = <<>>
    /\ regens = <<>>
    /\ rounds = 0
    /\ lastErr = <<>>
    /\ completeAt = -1
    /\ regenLog = EmptyBag

NoQc ==
    /\ max_attempts = 0
    /\ attempt = 0
    /\ missing = {}
    /\ pending = {}
    /\ reasons = <<>>
    /\ report = <<>>

\* a run of meme_ocr.py, Step 1 done
Init ==
    /\ variant = "meme_ocr"
    /\ pc = "encode"
    /\ detected_texts \in OcrBatches
    /\ txt_file = <<>>
    /\ editor = "none"
    /\ corrected_texts = <<>>
    /\ files = {}
    /\ idx = 0
    /\ NoQc
    /\ NoHistory

\* Step 2: write detected_texts.txt
EncodeStep ==
    /\ pc = "encode"
    /\ txt_file' = Encode(detected_texts)
    /\ pc' = "editor"
    /\ UNCHANGED <<variant, detected_texts, editor, corrected_texts, files, idx,
                   max_attempts, attempt, missing, pending, reasons, report,
                   passLog, regens, rounds, lastErr, completeAt, regenLog>>

\* Step 3 as it would be if FileNotFoundError were not caught
LaunchEditorFatal ==
    /\ pc = "editor"
    /\ editor' \in {"closed", "not_found"}
    /\ pc' = IF editor' = "not_found" THEN "aborted" ELSE "input"
    /\ UNCHANGED <<variant, detected_texts, txt_file, corrected_texts, files, idx,
                   max_attempts, attempt, missing, pending, reasons, report,
                   passLog, regens, rounds, lastErr, completeAt, regenLog>>

\* Step 3: subprocess.call of the editor returns, or raises FileNotFoundError
LaunchEditor ==
    /\ pc = "editor"
    /\ editor' \in {"closed", "not_found"}
    /\ pc' = "input"
    /\ UNCHANGED <<variant, detected_texts, txt_file, corrected_texts, files, idx,
                   max_attempts, attempt, missing, pending, reasons, report,
                   passLog, regens, rounds, lastErr, completeAt, regenLog>>

\* input() returns; the operator left the file as written
ConfirmAsIs ==
    /\ pc = "input"
    /\ pc' = "decode"
    /\ UNCHANGED <<variant, detected_texts, txt_file, editor, corrected_texts, files,
                   idx, max_attempts, attempt, missing, pending, reasons, report,
                   passLog, regens, rounds, lastErr, completeAt, regenLog>>

\* input() returns; the operator saved another document
ConfirmEdited ==
    /\ pc = "input"
    /\ txt_file' \in DocsOf(EditLineSet, MaxEditLines)
    /\ pc' = "decode"
    /\ UNCHANGED <<variant, detected_texts, editor, corrected_texts, files,
                   idx, max_attempts, attempt, missing, pending, reasons, report,
                   passLog, regens, rounds, lastErr, completeAt, regenLog>>

\* Step 4: parse the file
DecodeStep ==
    /\ pc = "decode"
    /\ corrected_texts' = Decode(variant, txt_file)
    /\ idx' = 0
    /\ pc' = "generate"
    /\ UNCHANGED <<variant, detected_texts, txt_file, editor, files,
                   max_attempts, attempt, missing, pending, reasons, report,
                   passLog, regens, rounds, lastErr, completeAt, regenLog>>

\* Step 5 as it would be if a failed call ended the loop
GenerateStepAborting ==
    /\ pc = "generate"
    /\ idx < Len(corrected_texts)
    /\ \E o \in Outcomes :
         LET e == corrected_texts[idx + 1]
         IN  /\ files' = AfterGenerate(files, e.id, o)
             /\ passLog' = Append(passLog, [id |-> e.id, text |-> e.text, err |-> o.err])
             /\ idx' = IF o.err # NoErr THEN Len(corrected_texts) ELSE idx + 1
    /\ UNCHANGED <<variant, pc, detected_texts, txt_file, editor, corrected_texts,
                   max_attempts, attempt, missing, pending, reasons, report,
                   regens, rounds, lastErr, completeAt, regenLog>>

\* Step 5, one pass of the loop: generate_audio_balcon for the next entry;
\* an error is printed and the loop goes on
GenerateStep ==
    /\ pc = "generate"
    /\ idx < Len(corrected_texts)
    /\ \E o \in Outcomes :
         LET e == corrected_texts[idx + 1]
         IN  /\ files' = AfterGenerate(files, e.id, o)
             /\ passLog' = Append(passLog, [id |-> e.id, text |-> e.text, err |-> o.err])
    /\ idx' = idx + 1
    /\ UNCHANGED <<variant, pc, detected_texts, txt_file, editor, corrected_texts,
                   max_attempts, attempt, missing, pending, reasons, report,
                   regens, rounds, lastErr, completeAt, regenLog>>

\* Step 6 as it would be if it did not wait for the end of the Step 5 loop
CallQualityControlEarly ==
    /\ pc = "generate"
    /\ max_attempts' = DefaultMaxAttempts
    /\ pc' = "qc"
    /\ UNCHANGED <<variant, detected_texts, txt_file, editor, corrected_texts, files,
                   idx, attempt, missing, pending, reasons, report,
                   passLog, regens, rounds, lastErr, completeAt, regenLog>>

\* Step 6: quality_control(corrected_texts, audio_dir, max_attempts=3) is called
CallQualityControl ==
    /\ pc = "generate"
    /\ idx = Len(corrected_texts)
    /\ max_attempts' = DefaultMaxAttempts
    /\ pc' = "qc"
    /\ UNCHANGED <<variant, detected_texts, txt_file, editor, corrected_texts, files,
                   idx, attempt, missing, pending, reasons, report,
                   passLog, regens, rounds, lastErr, completeAt, regenLog>>

expected_names == Keys(corrected_texts)

NowMissing(fs) == {id \in expected_names : ~Exists(fs, id)}

\* "for attempt in range(1, max_attempts + 1)": whether the loop runs for att
LoopRunsOffByOne(att, max) == att <= max + 1

InRange(att, max) == att <= max

\* quality_control, lines 97-100: expected_names, reasons = {}, the loop starts
\* (or, with max_attempts = 0, is skipped)
QcEnter ==
    /\ pc = "qc"
    /\ reasons' = <<>>
    /\ attempt' = 1
    /\ pc' = IF InRange(1, max_attempts) THEN "scan" ELSE "final"
    /\ regens' = [id \in expected_names |-> 0]
    /\ completeAt' = IF NowMissing(files) = {} THEN 0 ELSE -1
    /\ UNCHANGED <<variant, detected_texts, txt_file, editor, corrected_texts, files,
                   idx, max_attempts, missing, pending, report,
                   passLog, rounds, lastErr, regenLog>>

\* the scan as it would be if a round regenerated every expected id
QcScanAll ==
    /\ pc = "scan"
    /\ missing' = NowMissing(files)
    /\ IF missing' = {}
       THEN /\ pc' = "done"
            /\ UNCHANGED <<pending, rounds>>
       ELSE /\ pc' = "regen"
            /\ pending' = expected_names
            /\ rounds' = rounds + 1
    /\ UNCHANGED <<variant, detected_texts, txt_file, editor, corrected_texts, files,
                   idx, max_attempts, attempt, reasons, report,
                   passLog, regens, lastErr, completeAt, regenLog>>

\* the scan as it would be without the return of line 111
QcScanNoReturn ==
    /\ pc = "scan"
    /\ missing' = NowMissing(files)
    /\ IF missing' = {}
       THEN /\ pc' = "final"
            /\ UNCHANGED <<pending, rounds>>
       ELSE /\ pc' = "regen"
            /\ pending' = missing'
            /\ rounds' = rounds + 1
    /\ UNCHANGED <<variant, detected_texts, txt_file, editor, corrected_texts, files,
                   idx, max_attempts, attempt, reasons, report,
                   passLog, regens, lastErr, completeAt, regenLog>>

\* lines 103-111: the scan of one attempt; return when nothing is missing
QcScan ==
    /\ pc = "scan"
    /\ missing' = NowMissing(files)
    /\ IF missing' = {}
       THEN /\ pc' = "done"
            /\ UNCHANGED <<pending, rounds>>
       ELSE /\ pc' = "regen"
            /\ pending' = missing'
            /\ rounds' = rounds + 1
    /\ UNCHANGED <<variant, detected_texts, txt_file, editor, corrected_texts, files,
                   idx, max_attempts, attempt, reasons, report,
                   passLog, regens, lastErr, completeAt, regenLog>>

\* the regeneration as it would be if an entry were dropped from the dict
\* once its file is written
QcRegenerateForgetting ==
    /\ pc = "regen"
    /\ \E id \in pending, o \in Outcomes :
         /\ files' = AfterGenerate(files, id, o)
         /\ reasons' = NoteError(reasons, id, o.err)
         /\ lastErr' = IF o.err # NoErr THEN Record(lastErr, id, o.err) ELSE lastErr
         /\ regens' = [regens EXCEPT ![id] = @ + 1]
         /\ regenLog' = regenLog (+) SetToBag({[round |-> rounds, id |-> id,
                                                text |-> Get(corrected_texts, id),
                                                existed |-> Exists(files, id)]})
         /\ pending' = pending \ {id}
         /\ IF pending' = {}
            THEN /\ attempt' = attempt + 1
                 /\ pc' = IF InRange(attempt + 1, max_attempts) THEN "scan" ELSE "final"
                 /\ completeAt' = IF completeAt = -1 /\ NowMissing(files') = {}
                                  THEN rounds ELSE completeAt
            ELSE UNCHANGED <<attempt, pc, completeAt>>
         /\ corrected_texts' = IF o.wrote
                               THEN SelectSeq(corrected_texts, LAMBDA e : e.id # id)
                               ELSE corrected_texts
    /\ UNCHANGED <<variant, detected_texts, txt_file, editor,
                   idx, max_attempts, missing, report, passLog, rounds>>

\* lines 115-120, one pass of "for image_name in missing" (a set: any order);
\* after the last one the for loop over attempts goes on or ends
QcRegenerate ==
    /\ pc = "regen"
    /\ \E id \in pending, o \in Outcomes :
         /\ files' = AfterGenerate(files, id, o)
         /\ reasons' = NoteError(reasons, id, o.err)
         /\ lastErr' = IF o.err # NoErr THEN Record(lastErr, id, o.err) ELSE lastErr
         /\ regens' = [regens EXCEPT ![id] = @ + 1]
         /\ regenLog' = regenLog (+) SetToBag({[round |-> rounds, id |-> id,
                                                text |-> Get(corrected_texts, id),
                                                existed |-> Exists(files, id)]})
         /\ pending' = pending \ {id}
         /\ IF pending' = {}
            THEN /\ attempt' = attempt + 1
                 /\ pc' = IF InRange(attempt + 1, max_attempts) THEN "scan" ELSE "final"
                 /\ completeAt' = IF completeAt = -1 /\ NowMissing(files') = {}
                                  THEN rounds ELSE completeAt
            ELSE UNCHANGED <<attempt, pc, completeAt>>
    /\ UNCHANGED <<variant, detected_texts, txt_file, editor, corrected_texts,
                   idx, max_attempts, missing, report, passLog, rounds>>

\* the report as it would be without the default of reasons.get
ReportWithoutPlaceholder(final_missing, rs) ==
    [id \in final_missing |-> IF id \in DOMAIN rs THEN rs[id] ELSE NoErr]

\* the report quality_control prints for final_missing
ReportOf(final_missing, rs) ==
    [id \in final_missing |-> IF id \in DOMAIN rs THEN rs[id] ELSE Placeholder]

\* lines 124-130: the final scan and the final report
QcFinal ==
    /\ pc = "final"
    /\ report' = ReportOf(expected_names \ GlobStems(files), reasons)
    /\ pc' = "done"
    /\ UNCHANGED <<variant, detected_texts, txt_file, editor, corrected_texts, files,
                   idx, max_attempts, attempt, missing, pending, reasons,
                   passLog, regens, rounds, lastErr, completeAt, regenLog>>

Next ==
    \/ EncodeStep
    \/ LaunchEditor
    \/ ConfirmAsIs
    \/ ConfirmEdited
    \/ DecodeStep
    \/ GenerateStep
    \/ CallQualityControl
    \/ QcEnter
    \/ QcScan
    \/ QcRegenerate
    \/ QcFinal

Spec == Init /\ [][Next]_vars

\* quality_control called on any dict, any directory contents for its ids
\* and any max_attempts
InitQc ==
    /\ variant = "meme_ocr"
    /\ pc = "qc"
    /\ detected_texts = <<>>
    /\ txt_file = <<>>
    /\ editor = "none"
    /\ corrected_texts \in Dicts(QcIds, QcTexts)
    /\ files \in SUBSET {AudioFile(id) : id \in QcIds}
    /\ files \subseteq {AudioFile(id) : id \in Keys(corrected_texts)}
    /\ idx = Len(corrected_texts)
    /\ max_attempts \in 0..MaxAttempts
    /\ attempt = 0
    /\ missing = {}
    /\ pending = {}
    /\ reasons = <<>>
    /\ report = <<>>
    /\ NoHistory

NextQc == QcEnter \/ QcScan \/ QcRegenerate \/ QcFinal

SpecQc == InitQc /\ [][NextQc]_vars

\* every generate call returns and the interpreter keeps running the loop
FairSpecQc == SpecQc /\ WF_vars(NextQc)

\* ids as a header line can give them: empty, plain, with a dot inside or at
\* an end, with a path separator
NameIds ==
    { <<>>, <<"a">>, <<"a", DOT, "b">>, <<DOT>>, <<"a", DOT>>, <<"a", SLASH, "b">> }

\* quality_control called on a dict of one entry, audio_dir (and its
\* subdirectories) holding any of the files named after these ids
InitNames ==
    /\ variant = "meme_ocr"
    /\ pc = "qc"
    /\ detected_texts = <<>>
    /\ txt_file = <<>>
    /\ editor = "none"
    /\ \E id \in NameIds, text \in QcTexts :
          corrected_texts = << [id |-> id, text |-> text] >>
    /\ files \in SUBSET {AudioFile(id) : id \in NameIds}
    /\ idx = Len(corrected_texts)
    /\ max_attempts \in 0..MaxAttempts
    /\ attempt = 0
    /\ missing = {}
    /\ pending = {}
    /\ reasons = <<>>
    /\ report = <<>>
    /\ NoHistory

SpecNames == InitNames /\ [][NextQc]_vars

\* the writer applied to any dict, and each parser applied to any document
InitCodec ==
    /\ \/ /\ variant = "meme_ocr"
          /\ pc = "encode"
          /\ detected_texts \in Dicts(CodecIds, Texts)
          /\ txt_file = <<>>
       \/ /\ variant = "meme_ocr"
          /\ pc = "decode"
          /\ detected_texts = <<>>
          /\ txt_file \in DocsOf(LineSet, MaxLines)
       \/ /\ variant \in Variants \ {"meme_ocr"}
          /\ pc = "decode"
          /\ detected_texts = <<>>
          /\ txt_file \in DocsOf(LineSet, MaxVariantLines)
    /\ editor = "none"
    /\ corrected_texts = <<>>
    /\ files = {}
    /\ idx = 0
    /\ NoQc
    /\ NoHistory

NextCodec == EncodeStep \/ LaunchEditor \/ ConfirmAsIs \/ DecodeStep

SpecCodec == InitCodec /\ [][NextCodec]_vars

-----------------------------------------------------------------------------
(* The document format as the program prints it for the operator: blocks   *)
(* of non-blank lines with blank lines between them, the first line of a   *)
(* block its header.  Used to state the claims, not by the actions.        *)

IsBlank(line) == \A k \in 1..Len(line) : IsSpace(line[k])

\* indices of the first lines of the blocks of the lines L
BlockStarts(L) ==
    {i \in 1..Len(L) : ~IsBlank(L[i]) /\ (i = 1 \/ IsBlank(L[i - 1]))}

\* index of the last line of the block that starts at i
RECURSIVE BlockEnd(_, _)
BlockEnd(L, i) ==
    IF i < Len(L) /\ ~IsBlank(L[i + 1]) THEN BlockEnd(L, i + 1) ELSE i

WellFormed(L, i) == EndsWithColon(Strip(L[i]))

BlockId(L, i) ==
    LET header == Strip(L[i])
    IN  Strip(Slice(header, 1, Len(header) - 1))

\* the lines after the header, trimmed, joined by a newline
BlockText(L, i) ==
    Join([k \in 1..(BlockEnd(L, i) - i) |-> Strip(L[i + k])], <<NL>>)

GoodBlocks(L) == {i \in BlockStarts(L) : WellFormed(L, i)}

BadBlocks(L) == {i \in BlockStarts(L) : ~WellFormed(L, i)}

\* the last well-formed block of each id
LastBlocks(L) ==
    LET good == GoodBlocks(L)
    IN  {i \in good : \A j \in good : j > i => BlockId(L, j) # BlockId(L, i)}

\* the document without the lines of its malformed blocks
WithoutBadBlocks(L) ==
    LET bad == BadBlocks(L)
        dropped == {k \in 1..Len(L) : \E i \in bad : i <= k /\ k <= BlockEnd(L, i)}
    IN  Join([k \in 1..Len(L) |-> IF k \in dropped THEN <<>> ELSE L[k]], <<NL>>)

\* the header-only blocks that are the last of their id
EmptyBlocks(L) == {i \in LastBlocks(L) : BlockEnd(L, i) = i}

Parsed == pc \notin {"encode", "editor", "input", "decode"}

PassOver == pc \in {"qc", "scan", "regen", "final", "done"}

-----------------------------------------------------------------------------
(* Claims about quality_control. *)

\* C1: when quality_control has ended, the final report lists exactly the
\* expected ids whose artifact does not exist (so every expected id has its
\* artifact or is named in the report, and a full success has no report).
C1_ReportIsTheMissing ==
    pc = "done" => DOMAIN report = NowMissing(files)

\* C3: if k is the first round after which no expected artifact is missing,
\* quality_control ends after exactly k regeneration rounds with an empty
\* failure list.
C3_Convergence ==
    (pc = "done" /\ completeAt >= 0) => (rounds = completeAt /\ report = <<>>)

\* C4: every id of the final report is paired with the message of its latest
\* failed regeneration, and no id of the report has its artifact.
C4_Exhaustion ==
    pc = "done" =>
        \A id \in DOMAIN report :
            /\ id \in DOMAIN lastErr => report[id] = lastErr[id]
            /\ ~Exists(files, id)

\* C5: quality_control terminates; it makes at most max_attempts regeneration
\* rounds and regenerates no id more than max_attempts times; a round starts
\* only while fewer than max_attempts rounds were used and something is
\* missing; a scan that finds nothing missing ends it.
C5_Terminates ==
    /\ [](/\ rounds <= max_attempts
          /\ \A id \in DOMAIN regens : regens[id] <= max_attempts)
    /\ [][rounds' # rounds =>
            /\ rounds' = rounds + 1
            /\ rounds < max_attempts
            /\ missing' # {}]_vars
    /\ [][(pc = "scan" /\ NowMissing(files) = {}) => pc' = "done"]_vars
    /\ <>(pc = "done")

\* a call with max_attempts = 3 that used every round, for an id regenerated
\* three times
C5_Witness ==
    /\ pc = "done"
    /\ max_attempts = DefaultMaxAttempts
    /\ rounds = max_attempts
    /\ \E id \in DOMAIN regens : regens[id] = max_attempts

-----------------------------------------------------------------------------
(* Claims about the generation pass (Step 5). *)

\* C6: the pass calls generate once for every entry of the decoded dict, in
\* dict order and with the entry's text, whatever the calls return; once the
\* pass is over every entry has had its one call.
C6_PassIsolation ==
    /\ Len(passLog) = idx
    /\ Len(passLog) <= Len(corrected_texts)
    /\ \A k \in 1..Len(passLog) :
          /\ k <= Len(corrected_texts)
          /\ passLog[k].id = corrected_texts[k].id
          /\ passLog[k].text = corrected_texts[k].text
    /\ PassOver => Len(passLog) = Len(corrected_texts)

\* the pass is over, the call for the first entry failed and the call for
\* the second succeeded
C6_Witness ==
    /\ PassOver
    /\ Len(passLog) = 2
    /\ passLog[1].err # NoErr
    /\ passLog[2].err = NoErr
    /\ passLog[2].id # passLog[1].id

-----------------------------------------------------------------------------
(* Claims about the codec. *)

\* the pieces of a text between its newlines
Pieces(text) == SplitLines(text \o <<NL>>)

\* the precondition of the round-trip law as the specification words it: no
\* colon, newline or outer whitespace in an id, no blank line in a text
ClaimedWellFormed(d) ==
    \A i \in 1..Len(d) :
        /\ \A k \in 1..Len(d[i].id) : d[i].id[k] \notin {COLON, NL}
        /\ Strip(d[i].id) = d[i].id
        /\ d[i].text = <<>> \/ \A k \in 1..Len(Pieces(d[i].text)) :
                                  ~IsBlank(Pieces(d[i].text)[k])

\* no line of a text has leading or trailing whitespace
TrimmedLines(d) ==
    \A i \in 1..Len(d) :
        \A k \in 1..Len(Pieces(d[i].text)) :
            Strip(Pieces(d[i].text)[k]) = Pieces(d[i].text)[k]

\* the file was written from detected_texts, left as it was, and parsed
RoundTripped ==
    /\ variant = "meme_ocr"
    /\ pc = "generate"
    /\ txt_file = Encode(detected_texts)

\* C2, as claimed: a dict whose ids hold no colon, newline or outer
\* whitespace and whose texts hold no blank line is parsed back unchanged
\* from the file written for it.
C2_RoundTripAsClaimed ==
    (RoundTripped /\ ClaimedWellFormed(detected_texts))
        => corrected_texts = detected_texts

\* C2, amended: the same, for dicts whose text lines moreover have no leading
\* or trailing whitespace: same ids, same texts, same order.
C2_RoundTrip ==
    (RoundTripped /\ ClaimedWellFormed(detected_texts) /\ TrimmedLines(detected_texts))
        => corrected_texts = detected_texts

\* two entries, one with the empty id and one with a two-line text, parsed
\* back unchanged
C2_Witness ==
    /\ RoundTripped
    /\ ClaimedWellFormed(detected_texts)
    /\ TrimmedLines(detected_texts)
    /\ Len(detected_texts) = 2
    /\ \E i, j \in 1..2 :
          /\ detected_texts[i].id = <<>>
          /\ Len(Pieces(detected_texts[j].text)) = 2
    /\ corrected_texts = detected_texts

ParsedByBalcon == variant = "meme_ocr" /\ pc = "generate"

\* C7: a block whose header does not end with a colon contributes no entry,
\* and the parsed dict is the one the document gives without that block: the
\* ids are those of the well-formed blocks, ids, texts and order as without it.
C7_MalformedSkip ==
    ParsedByBalcon =>
        LET L == SplitLines(txt_file)
        IN  /\ Keys(corrected_texts) = {BlockId(L, i) : i \in GoodBlocks(L)}
            /\ corrected_texts = DecodeBalcon(WithoutBadBlocks(L))

\* a malformed block between two well-formed blocks, one of them with text,
\* and both of these parsed
C7_Witness ==
    /\ ParsedByBalcon
    /\ Len(corrected_texts) = 2
    /\ LET L == SplitLines(txt_file)
       IN  \E i, j, k \in BlockStarts(L) :
              /\ i < j /\ j < k
              /\ WellFormed(L, i) /\ ~WellFormed(L, j) /\ WellFormed(L, k)
              /\ BlockText(L, i) # <<>>
              /\ corrected_texts = << [id |-> BlockId(L, i), text |-> BlockText(L, i)],
                                      [id |-> BlockId(L, k), text |-> BlockText(L, k)] >>

\* C8: every id of a well-formed block has exactly one entry, and its text is
\* that of the last block with this id.
C8_DuplicateOverwrite ==
    ParsedByBalcon =>
        LET L == SplitLines(txt_file)
        IN  /\ \A i \in GoodBlocks(L) :
                  Cardinality({k \in 1..Len(corrected_texts) :
                                  corrected_texts[k].id = BlockId(L, i)}) = 1
            /\ \A i \in LastBlocks(L) :
                  Get(corrected_texts, BlockId(L, i)) = BlockText(L, i)

\* two blocks of one id with different texts, parsed to the later text
C8_Witness ==
    /\ ParsedByBalcon
    /\ Len(corrected_texts) = 1
    /\ LET L == SplitLines(txt_file)
       IN  \E i, j \in GoodBlocks(L) :
              /\ i < j
              /\ BlockId(L, i) = BlockId(L, j)
              /\ BlockText(L, i) # BlockText(L, j)
              /\ corrected_texts = << [id |-> BlockId(L, j), text |-> BlockText(L, j)] >>

\* C9: in each of the three programs, a block whose header is followed by
\* several non-blank lines is parsed to all of these lines, trimmed and
\* joined by a newline (stated for text lines that do not end with a colon,
\* which no parser can take for a header).
C9_MultiLineKept ==
    pc = "generate" =>
        LET L == SplitLines(txt_file)
        IN  \A i \in LastBlocks(L) :
                (/\ BlockEnd(L, i) >= i + 2
                 /\ \A k \in (i + 1)..BlockEnd(L, i) : ~EndsWithColon(Strip(L[k])))
                    => /\ BlockId(L, i) \in Keys(corrected_texts)
                       /\ Get(corrected_texts, BlockId(L, i)) = BlockText(L, i)

\* C10: a block that is a header alone is parsed to an entry with the empty
\* text; its id is one of the expected names, gets its call in the generation
\* pass with that text, and ends with its artifact or in the final report.
C10_EmptyTextKept ==
    Parsed =>
        LET L == SplitLines(txt_file)
        IN  \A i \in EmptyBlocks(L) :
                LET id == BlockId(L, i)
                IN  /\ id \in expected_names
                    /\ Get(corrected_texts, id) = <<>>
                    /\ PassOver =>
                          \E k \in 1..Len(passLog) :
                              passLog[k].id = id /\ passLog[k].text = <<>>
                    /\ pc = "regen" => (id \in missing \/ Exists(files, id))
                    /\ pc = "done" => (id \in DOMAIN report \/ Exists(files, id))

\* a header-only block whose id was tried in the pass and again by
\* quality_control
C10_Witness ==
    /\ pc = "done"
    /\ LET L == SplitLines(txt_file)
       IN  \E i \in EmptyBlocks(L) :
              /\ Get(corrected_texts, BlockId(L, i)) = <<>>
              /\ \E k \in 1..Len(passLog) : passLog[k].id = BlockId(L, i)
              /\ regens[BlockId(L, i)] > 0

-----------------------------------------------------------------------------
(* Further claims about quality_control. *)

\* the last allowed round has been run and quality_control has ended
LastRoundRun == pc = "done" /\ max_attempts > 0 /\ rounds = max_attempts

\* C11: an id that the scan of the last allowed round found missing and whose
\* artifact exists when that round is over is not in the final report.
C11_FinalRescan ==
    LastRoundRun =>
        \A id \in missing : Exists(files, id) => id \notin DOMAIN report

\* C12: every id of the final report is paired with the message of its
\* latest regeneration call that returned one, and with the placeholder when
\* no regeneration call for it returned a message.
C12_ReasonOrPlaceholder ==
    pc = "done" =>
        \A id \in DOMAIN report :
            report[id] = IF id \in DOMAIN lastErr THEN lastErr[id] ELSE Placeholder

\* a report with the placeholder for an id that was regenerated without a
\* message and without an artifact, and a message for another id
C12_Witness ==
    /\ pc = "done"
    /\ \E id, other \in DOMAIN report :
          /\ regens[id] > 0
          /\ ~Exists(files, id)
          /\ report[id] = Placeholder
          /\ report[other] \in Messages

-----------------------------------------------------------------------------
(* Claims about a whole run of process_images. *)

AfterEditor == pc \in {"input", "decode", "generate", "qc", "scan", "regen", "final", "done"}

\* C13: when the editor is invoked the document is written in full; nothing
\* is parsed before input() has returned; whether the editor was launched or
\* not found (FileNotFoundError), the run waits at input(), which the
\* operator can answer, and goes on from there.
C13_EditGate ==
    /\ pc = "editor" => (editor = "none" /\ txt_file = Encode(detected_texts))
    /\ editor = "none" <=> pc \in {"encode", "editor"}
    /\ editor # "none" => AfterEditor
    /\ pc \in {"encode", "editor", "input"} =>
          (corrected_texts = <<>> /\ passLog = <<>> /\ files = {})
    /\ pc = "input" => ENABLED ConfirmAsIs

\* a run in which the editor was not found and that went through parsing,
\* generation and a regeneration round to its end
C13_Witness ==
    /\ editor = "not_found"
    /\ pc = "done"
    /\ corrected_texts # <<>>
    /\ Len(passLog) = Len(corrected_texts)
    /\ rounds > 0

\* C14: with no text detected the document written has no block; left as
\* it is, it is parsed to the empty dict, generate is never called, and
\* quality_control returns at its first scan, nothing missing, no report.
C14_EmptyFolder ==
    detected_texts = <<>> =>
        /\ pc = "editor" => BlockStarts(SplitLines(txt_file)) = {}
        /\ txt_file = Encode(detected_texts) =>
              /\ corrected_texts = <<>>
              /\ passLog = <<>>
              /\ regenLog = EmptyBag
              /\ files = {}
              /\ missing = {}
              /\ rounds = 0
              /\ report = <<>>
              /\ pc \notin {"regen", "final"}
              /\ pc = "done" => attempt = 1

\* the run of an empty folder, ended
C14_Witness ==
    /\ detected_texts = <<>>
    /\ txt_file = Encode(detected_texts)
    /\ pc = "done"
    /\ attempt = 1

\* the regeneration calls made so far, and the ids of those of round n
Calls == BagToSet(regenLog)

CalledIn(n) == {r.id : r \in {x \in Calls : x.round = n}}

\* C15: from the end of parsing on, the dict (ids, texts, order) and with it
\* the expected names stay as they are, as do the document and the OCR
\* result; every regeneration call is for an expected id and passes the
\* text the dict holds for it.
C15_Frame ==
    /\ [][Parsed =>
            /\ corrected_texts' = corrected_texts
            /\ Keys(corrected_texts') = expected_names
            /\ txt_file' = txt_file
            /\ detected_texts' = detected_texts]_vars
    /\ [][PassOver => (passLog' = passLog /\ idx' = idx)]_vars
    /\ [](\A r \in Calls :
            /\ r.id \in expected_names
            /\ r.text = Get(corrected_texts, r.id))

\* a run with two entries, ended after two rounds of regeneration
C15_Witness ==
    /\ pc = "done"
    /\ Len(corrected_texts) = 2
    /\ rounds >= 2
    /\ \E r \in Calls : r.round = 2 /\ r.text # <<>>

\* C16: a round calls generate once for each id its scan found missing and
\* for no other id; the file of the id does not exist when the call is
\* made, so no existing artifact is rewritten; an id whose artifact exists
\* at a scan is not in that round's missing set.
C16_OncePerMissing ==
    /\ \A r \in Calls : CopiesIn(r, regenLog) = 1 /\ ~r.existed
    /\ \A r1, r2 \in Calls : (r1.round = r2.round /\ r1.id = r2.id) => r1 = r2
    /\ pc = "regen" =>
          /\ CalledIn(rounds) = missing \ pending
          /\ pending \subseteq missing
          /\ missing \subseteq expected_names
          /\ \A id \in pending : ~Exists(files, id)
          /\ \A id \in expected_names \ missing : Exists(files, id)
    /\ (pc \in {"scan", "final"} /\ rounds > 0) => CalledIn(rounds) = missing
    /\ \A id \in DOMAIN regens :
          regens[id] = Cardinality({r \in Calls : r.id = id})

\* the second round of a call with two ids missing at first: one got its
\* artifact in round 1 and is left alone, the other is missing again
C16_Witness ==
    /\ pc = "regen"
    /\ rounds = 2
    /\ \E id, other \in expected_names :
          /\ CalledIn(1) = {id, other} /\ id # other
          /\ Exists(files, id) /\ id \notin missing /\ regens[id] = 1
          /\ missing = {other}

\* C17: whatever audio_dir holds, the test exists("<id>.wav") of the in-loop
\* scan and the stems of glob("*.wav") of the final scan give the same
\* answer for every expected id, the empty id and ids with dots or path
\* separators included.
C17_OneNamingRule ==
    \A id \in expected_names : Exists(files, id) <=> id \in GlobStems(files)

-----------------------------------------------------------------------------
(* Further claims about the codec and about a whole run. *)

\* the lines L with every run of blank lines between two blocks made one
\* empty line and the blank lines before the first and after the last block
\* removed; k is the line looked at, seen whether a block came before it
RECURSIVE CanonicalFrom(_, _, _)
CanonicalFrom(L, k, seen) ==
    IF k > Len(L) THEN <<>>
    ELSE IF ~IsBlank(L[k]) THEN <<L[k]>> \o CanonicalFrom(L, k + 1, TRUE)
    ELSE IF seen /\ k < Len(L) /\ ~IsBlank(L[k + 1])
         THEN << <<>> >> \o CanonicalFrom(L, k + 1, seen)
         ELSE CanonicalFrom(L, k + 1, seen)

Canonical(L) == CanonicalFrom(L, 1, FALSE)

\* C18: a document is parsed to the dict of the document that has one empty
\* line for each run of blank or whitespace-only lines between two blocks
\* and none before the first or after the last block, so the length and
\* the contents of these runs do not matter.
C18_BlankRuns ==
    ParsedByBalcon =>
        corrected_texts = DecodeBalcon(Join(Canonical(SplitLines(txt_file)), <<NL>>))

\* a document with a blank line before two blocks and, between them, a run
\* of an empty and a whitespace-only line, parsed to two entries
C18_Witness ==
    /\ ParsedByBalcon
    /\ Len(corrected_texts) = 2
    /\ LET L == SplitLines(txt_file)
       IN  /\ Len(L) >= 5
           /\ IsBlank(L[1])
           /\ \E k \in 2..(Len(L) - 1) :
                 /\ IsBlank(L[k]) /\ IsBlank(L[k + 1])
                 /\ L[k] # L[k + 1]
                 /\ \E i, j \in GoodBlocks(L) : i < k /\ k + 1 < j
           /\ Len(Canonical(L)) = 3

\* the calls of generate for id: in the Step 5 loop, and by quality_control
PassCalls(id) == Cardinality({k \in 1..Len(passLog) : passLog[k].id = id})

RegenCalls(id) == Cardinality({r \in Calls : r.id = id})

\* C19: generate is called for an id at most once in the Step 5 loop and at
\* most once in each round of quality_control, 1 + max_attempts times at
\* most; quality_control calls it for ids of the dict only, and scans only
\* after the Step 5 loop has made its call for every entry.
C19_CallBudget ==
    /\ \A k \in 1..Len(passLog) :
          /\ PassCalls(passLog[k].id) = 1
          /\ RegenCalls(passLog[k].id) <= max_attempts
          /\ PassCalls(passLog[k].id) + RegenCalls(passLog[k].id) <= 1 + DefaultMaxAttempts
    /\ \A r \in Calls :
          /\ r.id \in expected_names
          /\ PassCalls(r.id) = 1
          /\ CopiesIn(r, regenLog) = 1
          /\ r.round \in 1..max_attempts
          /\ \A r2 \in Calls : (r2.id = r.id /\ r2.round = r.round) => r2 = r
    /\ pc \in {"scan", "regen", "final", "done"} =>
          /\ idx = Len(corrected_texts)
          /\ \A id \in expected_names : PassCalls(id) = 1

\* a run in which generate was called four times for one id
C19_Witness ==
    /\ pc = "done"
    /\ \E id \in expected_names :
          /\ PassCalls(id) = 1
          /\ RegenCalls(id) = DefaultMaxAttempts

\* C20: writing the parsed dict and parsing that document gives the parsed
\* dict again: same ids, same texts, same order.
C20_FixedPoint ==
    ParsedByBalcon => DecodeBalcon(Encode(corrected_texts)) = corrected_texts

\* a document with a malformed block, a block without text and a block of an
\* id seen before, whose dict is parsed back from the document written for it
C20_Witness ==
    /\ ParsedByBalcon
    /\ LET L == SplitLines(txt_file)
       IN  /\ BadBlocks(L) # {}
           /\ EmptyBlocks(L) # {}
           /\ GoodBlocks(L) # LastBlocks(L)
    /\ Encode(corrected_texts) # txt_file
    /\ corrected_texts # <<>>
    /\ DecodeBalcon(Encode(corrected_texts)) = corrected_texts

=============================================================================
